---------------------------- MODULE Spec2Model ----------------------------
(***************************************************************************)
(* The "stats" plugin tool (examples/tools/python/tool.py): the line loop  *)
(* of main, the call handler handle_call and the statistics engine         *)
(* compute_stats, with the Python operations they rest on (float           *)
(* arithmetic, float()/int() coercion, list.sort, fixed-point formatting). *)
(*                                                                         *)
(* Floats.  CPython floats are IEEE-754 binary64: 53 significant bits,     *)
(* round to nearest even, overflow to infinity, NaN.  TLC's integers are   *)
(* 32 bits wide, so the model keeps the arithmetic and narrows the format: *)
(* a finite float is a whole number u of units of 2^-FracBits with at most *)
(* MantBits significant bits and |u| <= MaxU.  Every operation computes    *)
(* the exact result and rounds it once, as the hardware does.              *)
(*                                                                         *)
(* Text.  A text is a sequence of lines (the code joins them with "\n"),   *)
(* a line a sequence of tokens: <<"mean", "=", "2.5000">> stands for       *)
(* "mean     = 2.5000"; the padding of the label is not modelled.          *)
(***************************************************************************)
EXTENDS Integers, Sequences, FiniteSets, TLC

VARIABLES stdin, pos, out, pc, exc

vars == <<stdin, pos, out, pc, exc>>

(***************************************************************************)
(* Bounds of the model.                                                    *)
(***************************************************************************)
MantBits == 5
FracBits == 6
TopShift == 9
MaxLines == 2
MaxN == 3

Pow2(k) == 2 ^ k

Unit == Pow2(FracBits)

MaxU == (Pow2(MantBits) - 1) * Pow2(TopShift)

Abs(i) == IF i < 0 THEN -i ELSE i

Sign(i) == IF i < 0 THEN -1 ELSE 1

Min(a, b) == IF a < b THEN a ELSE b

Max(a, b) == IF a > b THEN a ELSE b

\* The element of a one-element set.  {e(x) : x \in {a}} evaluates a once and
\* names its value x, where a LET would evaluate a at every use of the name.
The(S) == CHOOSE r \in S : TRUE

(***************************************************************************)
(* Floats.                                                                 *)
(***************************************************************************)
Fin(u) == [c |-> "fin", u |-> u]

Inf(s) == [c |-> "inf", u |-> s]

NaN == [c |-> "nan", u |-> 0]

RECURSIVE BitLen(_)
BitLen(n) == IF n <= 0 THEN 0 ELSE 1 + BitLen(n \div 2)

\* n/d rounded to the nearest integer, ties to even (n >= 0, d > 0).
RoundHalfEven(n, d) ==
    The({ IF 2 * r > d \/ (2 * r = d /\ q % 2 = 1) THEN q + 1 ELSE q :
          q \in {n \div d}, r \in {n % d} })

\* n/d units rounded to the nearest float of MantBits significant bits.
Granule(len) == IF len > MantBits THEN Pow2(len - MantBits) ELSE 1

RoundUnits(n, d) == The({ RoundHalfEven(n, d * g) * g : g \in {Granule(BitLen(n \div d))} })

\* The float nearest to num/den units; beyond the largest float, infinity.
FRound(num, den) ==
    The({ IF r > MaxU THEN Inf(Sign(num)) ELSE Fin(Sign(num) * r) :
          r \in {RoundUnits(Abs(num), den)} })

IsFloatUnits(u) == Abs(u) <= MaxU /\ RoundUnits(Abs(u), 1) = Abs(u)

\* In the float operations x and y are the operands x0 and y0, evaluated once.
FNeg(x0) == The({ IF x.c = "nan" THEN NaN ELSE [c |-> x.c, u |-> -x.u] : x \in {x0} })

FAdd(x0, y0) ==
    The({ IF x.c = "nan" \/ y.c = "nan" THEN NaN
          ELSE IF x.c = "inf" /\ y.c = "inf" THEN (IF x.u = y.u THEN x ELSE NaN)
          ELSE IF x.c = "inf" THEN x
          ELSE IF y.c = "inf" THEN y
          ELSE FRound(x.u + y.u, 1) : x \in {x0}, y \in {y0} })

FSub(x0, y0) == FAdd(x0, FNeg(y0))

FMul(x0, y0) ==
    The({ IF x.c = "nan" \/ y.c = "nan" THEN NaN
          ELSE IF x.c = "inf" \/ y.c = "inf"
               THEN (IF x.u = 0 \/ y.u = 0 THEN NaN ELSE Inf(Sign(x.u) * Sign(y.u)))
          ELSE IF x.u # 0 /\ Abs(y.u) > (2 * MaxU * Unit) \div Abs(x.u)
               THEN Inf(Sign(x.u) * Sign(y.u))
          ELSE FRound(x.u * y.u, Unit) : x \in {x0}, y \in {y0} })

\* x / y for a finite y # 0 (the code divides by n, 2.0 and 100 only).
FDiv(x0, y0) ==
    The({ IF x.c = "nan" THEN NaN
          ELSE IF x.c = "inf" THEN Inf(x.u * Sign(y.u))
          ELSE FRound(Sign(y.u) * x.u * Unit, Abs(y.u)) : x \in {x0}, y \in {y0} })

FLt(x0, y0) ==
    The({ IF x.c = "nan" \/ y.c = "nan" THEN FALSE
          ELSE IF x.c = "inf" THEN x.u < 0 /\ ~(y.c = "inf" /\ y.u < 0)
          ELSE IF y.c = "inf" THEN y.u > 0
          ELSE x.u < y.u : x \in {x0}, y \in {y0} })

FLe(x0, y0) ==
    The({ IF x.c = "nan" \/ y.c = "nan" THEN FALSE ELSE FLt(x, y) \/ x = y :
          x \in {x0}, y \in {y0} })

RECURSIVE ISqrtIn(_, _, _)
ISqrtIn(n, lo, hi) ==
    IF lo = hi THEN lo
    ELSE The({ IF mid * mid <= n THEN ISqrtIn(n, mid, hi) ELSE ISqrtIn(n, lo, mid - 1) :
               mid \in {(lo + hi + 1) \div 2} })

ISqrt(n) == ISqrtIn(n, 0, Pow2((BitLen(n) + 1) \div 2))

\* math.sqrt, correctly rounded (the argument is a variance: never negative).
\* The float nearest to the square root of n units of 2^-(2 FracBits), given
\* s = floor(sqrt(n)) and the granule g of s: k g or (k + 1) g, by the side of
\* their midpoint m / 2 the root falls on.
SqrtRound(n, s, g) ==
    The({ Fin((IF 4 * n > m * m \/ (4 * n = m * m /\ k % 2 = 1) THEN k + 1 ELSE k) * g) :
          k \in {s \div g}, m \in {(2 * (s \div g) + 1) * g} })

FSqrt(x0) ==
    The({ IF x.c # "fin" THEN x
          ELSE The({ SqrtRound(x.u * Unit, s, Granule(BitLen(s))) : s \in {ISqrt(x.u * Unit)} }) :
          x \in {x0} })

\* int(x) of a finite float: truncation toward zero.
FTrunc(x0) == The({ Sign(x.u) * (Abs(x.u) \div Unit) : x \in {x0} })


(***************************************************************************)
(* f"{x:.{precision}f}": fixed-point text of the exact value, rounded half *)
(* to even at the last digit kept.                                         *)
(***************************************************************************)
RECURSIVE Zeros(_)
Zeros(k) == IF k <= 0 THEN "" ELSE "0" \o Zeros(k - 1)

RECURSIVE NumDigits(_)
NumDigits(i) == IF i < 10 THEN 1 ELSE 1 + NumDigits(i \div 10)

\* The digits of ip + sc / 10^d, d of them after the point, padded with
\* zeros to precision digits; a carry out of the fraction goes to ip.
Digits(ip, sc, d, precision) ==
    The({ ToString(IF sc = 10 ^ d THEN ip + 1 ELSE ip) \o
          (IF precision = 0 THEN ""
           ELSE "." \o Zeros(d - NumDigits(sc2)) \o ToString(sc2) \o Zeros(precision - d)) :
          sc2 \in {IF sc = 10 ^ d THEN 0 ELSE sc} })

\* ip + fr / Unit with d digits after the point: the fraction scaled by 10^d
\* is q + r / Unit, rounded half to even.
FixedPoint(ip, fr, d, precision) ==
    The({ Digits(ip,
                 IF 2 * r > Unit \/ (2 * r = Unit /\ (IF d = 0 THEN ip ELSE q) % 2 = 1)
                 THEN q + 1 ELSE q,
                 d, precision) :
          q \in {(fr * 10 ^ d) \div Unit}, r \in {(fr * 10 ^ d) % Unit} })

FormatFixed(x0, precision) ==
    The({ IF x.c = "nan" THEN "nan"
          ELSE IF x.c = "inf" THEN (IF x.u < 0 THEN "-inf" ELSE "inf")
          ELSE (IF x.u < 0 THEN "-" ELSE "") \o
               FixedPoint(Abs(x.u) \div Unit, Abs(x.u) % Unit, Min(precision, FracBits),
                          precision) : x \in {x0} })

(***************************************************************************)
(* Python values, as json.loads builds them.  A str is the sequence of its *)
(* characters (the model's strings are made of letters and digits); a dict *)
(* is a function from its keys.                                            *)
(***************************************************************************)
PyNone == [t |-> "NoneType"]

PyBool(b) == [t |-> "bool", b |-> b]

PyInt(i) == [t |-> "int", i |-> i]

PyFloat(x) == [t |-> "float", x |-> x]

PyStr(chars) == [t |-> "str", s |-> chars]

PyList(elems) == [t |-> "list", e |-> elems]

PyDict(map) == [t |-> "dict", m |-> map]

EmptyMap == [k \in {} |-> PyNone]

Ok(v) == [k |-> "ok", v |-> v]

Raise(e) == [k |-> "raise", exc |-> e]

DigitVal(ch) ==
    CASE ch = "0" -> 0 [] ch = "1" -> 1 [] ch = "2" -> 2 [] ch = "3" -> 3
      [] ch = "4" -> 4 [] ch = "5" -> 5 [] ch = "6" -> 6 [] ch = "7" -> 7
      [] ch = "8" -> 8 [] ch = "9" -> 9 [] OTHER -> -1

IsDigits(chars) == Len(chars) > 0 /\ \A i \in 1..Len(chars) : DigitVal(chars[i]) >= 0

RECURSIVE DigitsValue(_)
DigitsValue(chars) ==
    IF chars = <<>> THEN 0
    ELSE 10 * DigitsValue(SubSeq(chars, 1, Len(chars) - 1)) + DigitVal(chars[Len(chars)])

RECURSIVE Concat(_)
Concat(chars) == IF chars = <<>> THEN "" ELSE Head(chars) \o Concat(Tail(chars))

\* float(i) of an int: the nearest float, OverflowError beyond the largest.
IntToFloat(i) ==
    LET x == FRound(i * Unit, 1)
    IN  IF x.c = "inf" THEN Raise("OverflowError") ELSE Ok(x)

\* An int operand of a float operation (n, n - 1, lo, 1, 2.0, 100).
F(i) == IntToFloat(i).v

\* float(v)
ToFloat(v) ==
    CASE v.t = "float" -> Ok(v.x)
      [] v.t = "int" -> IntToFloat(v.i)
      [] v.t = "bool" -> Ok(IF v.b THEN F(1) ELSE F(0))
      [] v.t = "str" ->
           IF IsDigits(v.s) THEN IntToFloat(DigitsValue(v.s))
           ELSE IF v.s = <<"n", "a", "n">> THEN Ok(NaN)
           ELSE IF v.s = <<"i", "n", "f">> THEN Ok(Inf(1))
           ELSE Raise("ValueError")
      [] OTHER -> Raise("TypeError")

\* int(v)
ToInt(v) ==
    CASE v.t = "int" -> Ok(v.i)
      [] v.t = "bool" -> Ok(IF v.b THEN 1 ELSE 0)
      [] v.t = "float" ->
           IF v.x.c = "nan" THEN Raise("ValueError")
           ELSE IF v.x.c = "inf" THEN Raise("OverflowError")
           ELSE Ok(FTrunc(v.x))
      [] v.t = "str" -> IF IsDigits(v.s) THEN Ok(DigitsValue(v.s)) ELSE Raise("ValueError")
      [] OTHER -> Raise("TypeError")

\* repr(v), as the !r conversion of an f-string renders it, for the values
\* the model's messages carry in "type" and in "numbers".
RECURSIVE Repr(_)
RECURSIVE ReprJoin(_)
ReprJoin(elems) ==
    IF elems = <<>> THEN ""
    ELSE Repr(Head(elems)) \o (IF Len(elems) > 1 THEN ", " ELSE "") \o ReprJoin(Tail(elems))

Repr(v) ==
    CASE v.t = "NoneType" -> "None"
      [] v.t = "bool" -> IF v.b THEN "True" ELSE "False"
      [] v.t = "int" -> ToString(v.i)
      [] v.t = "str" -> "'" \o Concat(v.s) \o "'"
      [] v.t = "list" -> "[" \o ReprJoin(v.e) \o "]"

\* str(e) of the exception float(v) raises.
FloatErrorText(v) ==
    IF v.t = "str" THEN "could not convert string to float: " \o Repr(v)
    ELSE "float() argument must be a string or a real number, not '" \o v.t \o "'"

\* d.get(key, default)
Get(d, key, default) == IF key \in DOMAIN d.m THEN d.m[key] ELSE default

RECURSIVE SetToSeq(_)
SetToSeq(S) ==
    IF S = {} THEN <<>>
    ELSE LET x == CHOOSE y \in S : TRUE IN <<x>> \o SetToSeq(S \ {x})

\* iter(v): the elements a for loop over v visits.
Iter(v) ==
    CASE v.t = "list" -> Ok(v.e)
      [] v.t = "str" -> Ok([i \in 1..Len(v.s) |-> PyStr(<<v.s[i]>>)])
      [] v.t = "dict" -> Ok([i \in 1..Cardinality(DOMAIN v.m) |->
                               PyStr(<<SetToSeq(DOMAIN v.m)[i]>>)])
      [] OTHER -> Raise("TypeError")

\* [float(x) for x in elems]: the first element that fails raises.
RECURSIVE FloatAll(_)
Cons(x, rest) ==
    The({ IF r.k = "raise" THEN r ELSE Ok(<<x>> \o r.v) : r \in {rest} })

FloatAll(elems) ==
    The({ IF es = <<>> THEN Ok(<<>>)
          ELSE The({ IF x.k = "raise" THEN [k |-> "raise", exc |-> x.exc, at |-> Head(es)]
                     ELSE Cons(x.v, FloatAll(Tail(es))) : x \in {ToFloat(Head(es))} }) :
          es \in {elems} })

(***************************************************************************)
(* sorted(): list.sort on a list of floats shorter than 64 elements is     *)
(* count_run (the leading run, reversed when strictly descending) followed *)
(* by binarysort; every comparison is the float "<", false on a NaN.       *)
(***************************************************************************)
RECURSIVE RunEnd(_, _, _)
RunEnd(xs, i, descending) ==
    IF i = Len(xs) THEN i
    ELSE IF FLt(xs[i + 1], xs[i]) = descending THEN RunEnd(xs, i + 1, descending)
    ELSE i

CountRun(xs) ==
    The({ [n |-> RunEnd(xs, 2, descending), descending |-> descending] :
          descending \in {FLt(xs[2], xs[1])} })

ReversePrefix(xs, n) == [i \in 1..Len(xs) |-> IF i <= n THEN xs[n + 1 - i] ELSE xs[i]]

\* The place of pivot in xs[l .. r - 1]: halve the range until it is empty.
RECURSIVE BinarySearch(_, _, _, _)
BinarySearch(xs, pivot, l, r) ==
    The({ IF FLt(pivot, xs[p])
          THEN (IF l < p THEN BinarySearch(xs, pivot, l, p) ELSE l)
          ELSE (IF p + 1 < r THEN BinarySearch(xs, pivot, p + 1, r) ELSE p + 1) :
          p \in {l + (r - l) \div 2} })

\* xs with the element at from moved down to to.
InsertAt(xs, from, to) ==
    [i \in 1..Len(xs) |-> IF i < to \/ i > from THEN xs[i]
                          ELSE IF i = to THEN xs[from] ELSE xs[i - 1]]

RECURSIVE BinarySort(_, _)
BinarySort(xs0, start) ==
    The({ IF start > Len(xs) THEN xs
          ELSE BinarySort(InsertAt(xs, start, BinarySearch(xs, xs[start], 1, start)), start + 1) :
          xs \in {xs0} })

Sorted(xs0) ==
    The({ IF Len(xs) < 2 THEN xs
          ELSE The({ BinarySort(IF run.descending THEN ReversePrefix(xs, run.n) ELSE xs,
                                run.n + 1) : run \in {CountRun(xs)} }) :
          xs \in {xs0} })

(***************************************************************************)
(* compute_stats                                                           *)
(***************************************************************************)
\* sum(xs): a left fold of + from the int 0.
RECURSIVE SumFrom(_, _)
SumFrom(acc, xs) == IF xs = <<>> THEN acc ELSE SumFrom(FAdd(acc, Head(xs)), Tail(xs))

\* x ** 2: a finite result beyond the largest float raises OverflowError.
Square(x0) ==
    The({ IF x.c = "fin" /\ y.c = "inf" THEN Raise("OverflowError") ELSE Ok(y) :
          <<x, y>> \in {<<x0, FMul(x0, x0)>>} })

\* sum((x - mean) ** 2 for x in numbers)
RECURSIVE SumSquares(_, _, _)
SumSquares(acc, xs, mean) ==
    IF xs = <<>> THEN Ok(acc)
    ELSE The({ IF sq.k = "raise" THEN sq ELSE SumSquares(FAdd(acc, sq.v), Tail(xs), mean) :
               sq \in {Square(FSub(Head(xs), mean))} })

Mean(numbers) == FDiv(SumFrom(F(0), numbers), F(Len(numbers)))

Median(sorted_nums) ==
    The({ IF Len(sorted_nums) % 2 = 0
          THEN FDiv(FAdd(sorted_nums[mid], sorted_nums[mid + 1]), F(2))
          ELSE sorted_nums[mid + 1] : mid \in {Len(sorted_nums) \div 2} })

\* math.sqrt(variance), or the exception the sum of squares raised.
StdDev(numbers, mean) ==
    The({ IF squares.k = "raise" THEN squares
          ELSE Ok(FSqrt(FDiv(squares.v, F(Len(numbers))))) :
          squares \in {SumSquares(F(0), numbers, mean)} })

InRange(p) == FLe(F(0), p) /\ FLe(p, F(100))

\* sorted_nums[lo] * (1 - frac) + sorted_nums[hi] * frac
Blend(sorted_nums, lo, hi, frac) ==
    FAdd(FMul(sorted_nums[lo + 1], FSub(F(1), frac)), FMul(sorted_nums[hi + 1], frac))

\* The value interpolated for percentile p (0 <= p <= 100).
Interpolate(sorted_nums, p) ==
    The({ The({ Blend(sorted_nums, lo, Min(lo + 1, Len(sorted_nums) - 1), FSub(idx, F(lo))) :
                lo \in {FTrunc(idx)} }) :
          idx \in {FMul(FDiv(p, F(100)), F(Len(sorted_nums) - 1))} })

PercentileLine(sorted_nums, precision, p) ==
    <<"p" \o ToString(FTrunc(p)), "=", FormatFixed(Interpolate(sorted_nums, p), precision)>>

\* for p in ps: the line of each p in [0, 100]
RECURSIVE PercentileLines(_, _, _)
PercentileLines(sorted_nums, precision, ps) ==
    IF ps = <<>> THEN <<>>
    ELSE (IF InRange(Head(ps)) THEN <<PercentileLine(sorted_nums, precision, Head(ps))>>
          ELSE <<>>) \o PercentileLines(sorted_nums, precision, Tail(ps))

\* The lines of the report; a negative precision is no format specification.
Report(sorted_nums, mean, stddev, precision, percentiles) ==
    IF stddev.k = "raise" THEN stddev
    ELSE IF precision < 0 THEN Raise("ValueError")
    ELSE Ok(<< <<"n", "=", ToString(Len(sorted_nums))>>,
               <<"min", "=", FormatFixed(sorted_nums[1], precision)>>,
               <<"max", "=", FormatFixed(sorted_nums[Len(sorted_nums)], precision)>>,
               <<"mean", "=", FormatFixed(mean, precision)>>,
               <<"median", "=", FormatFixed(Median(sorted_nums), precision)>>,
               <<"std_dev", "=", FormatFixed(stddev.v, precision)>> >>
            \o PercentileLines(sorted_nums, precision, percentiles))

ComputeStats(numbers0, precision, percentiles0) ==
    The({ IF Len(numbers) = 0 THEN Ok(<< <<"Error: empty list">> >>)
          ELSE The({ Report(sorted_nums, mean, StdDev(numbers, mean), precision, percentiles) :
                     sorted_nums \in {Sorted(numbers)}, mean \in {Mean(numbers)},
                     percentiles \in {Sorted(percentiles0)} }) :
          numbers \in {numbers0} })

(***************************************************************************)
(* handle_call                                                             *)
(***************************************************************************)
Return(text, is_error) == [k |-> "ok", text |-> text, is_error |-> is_error]

Caught(r) == r.k = "raise" /\ r.exc \in {"TypeError", "ValueError"}

\* The clamp without its lower bound: a negative precision would reach the
\* format specification.
ClampNoFloor(precision) == Min(precision, 10)

Clamp(precision) == Max(0, Min(precision, 10))

\* [float(p) for p in raw_pcts] under except (TypeError, ValueError).
Percentiles(raw_pcts) ==
    The({ IF it.k = "raise" THEN Ok(<<>>)
          ELSE The({ IF Caught(fs) THEN Ok(<<>>) ELSE fs : fs \in {FloatAll(it.v)} }) :
          it \in {Iter(raw_pcts)} })

\* result = compute_stats(numbers, precision, percentiles); return result, False
Compute(numbers, precision, percentiles) ==
    The({ IF result.k = "raise" THEN Raise(result.exc) ELSE Return(result.v, FALSE) :
          result \in {ComputeStats(numbers, precision, percentiles)} })

\* handle_call from the precision on, numbers being the floats of the sample.
Configure(params, numbers) ==
    The({ IF prec.k = "raise" THEN Raise(prec.exc)
          ELSE The({ IF percentiles.k = "raise" THEN Raise(percentiles.exc)
                     ELSE Compute(numbers, Clamp(prec.v), percentiles.v) :
                     percentiles \in {Percentiles(Get(params, "percentiles", PyList(<<>>)))} }) :
          prec \in {ToInt(Get(params, "precision", PyInt(4)))} })

\* handle_call from the coercion of the elements on, raw being a list.
Coerce(params, raw) ==
    The({ IF Caught(numbers)
          THEN Return(<< <<"Error: non-numeric value in numbers:",
                           FloatErrorText(numbers.at)>> >>, TRUE)
          ELSE IF numbers.k = "raise" THEN Raise(numbers.exc)
          ELSE Configure(params, numbers.v) :
          numbers \in {FloatAll(raw.e)} })

\* The guard without its emptiness test: an empty list would reach
\* compute_stats.
EmptyCheckNoLen(raw) == raw.t # "list"

EmptyCheck(raw) == raw.t # "list" \/ Len(raw.e) = 0

HandleCall(params0) ==
    The({ IF params.t # "dict" THEN Raise("AttributeError")
          ELSE The({ IF EmptyCheck(raw)
                     THEN Return(<< <<"Error: 'numbers' must be a non-empty array">> >>, TRUE)
                     ELSE Coerce(params, raw) :
                     raw \in {Get(params, "numbers", PyNone)} }) :
          params \in {params0} })

(***************************************************************************)
(* main: the line loop.                                                    *)
(***************************************************************************)
DEFINITION ==
    [name |-> "stats",
     description |-> "Compute descriptive statistics on a list of numbers.",
     parameters |-> [type |-> "object",
                     properties |-> {"numbers", "precision", "percentiles"},
                     required |-> <<"numbers">>]]

Response(text, is_error) ==
    [content |-> << [type |-> "text", text |-> text] >>, error |-> is_error]

\* The lines of the input: blank after strip(); the JSON text of a value;
\* text json.loads rejects with JSONDecodeError; text nested so deep that
\* json.loads raises RecursionError instead.
BlankLine == [k |-> "blank"]

JsonLine(v) == [k |-> "json", v |-> v]

MalformedLine == [k |-> "malformed", msg |-> "Expecting property name enclosed in double quotes"]

DeepLine == [k |-> "deep"]

JsonLoads(line) ==
    CASE line.k = "json" -> Ok(line.v)
      [] line.k = "malformed" -> Raise("JSONDecodeError")
      [] line.k = "deep" -> Raise("RecursionError")

Describe == PyStr(<<"d", "e", "s", "c", "r", "i", "b", "e">>)

Call == PyStr(<<"c", "a", "l", "l">>)

Emit(resp) == [emit |-> <<resp>>, exc |-> "none", in |-> "none"]

Crash(e, where) == [emit |-> <<>>, exc |-> e, in |-> where]

NoExc == [name |-> "none", in |-> "none"]

\* The dispatch on the type of a parsed message.
Dispatch(msg) ==
    IF msg.t # "dict" THEN Crash("AttributeError", "main")
    ELSE The({ IF msg_type = Describe THEN Emit(DEFINITION)
               ELSE IF msg_type = Call
               THEN The({ IF r.k = "raise" THEN Crash(r.exc, "handle_call")
                          ELSE Emit(Response(r.text, r.is_error)) :
                          r \in {HandleCall(Get(msg, "params", PyDict(EmptyMap)))} })
               ELSE Emit(Response(<< <<"Unknown message type:", Repr(msg_type)>> >>, TRUE)) :
               msg_type \in {Get(msg, "type", PyNone)} })

\* One iteration of the for loop on a non-blank line: the response it
\* prints, or the exception that leaves main.
LoopBody(line) ==
    The({ IF parsed.k = "ok" THEN Dispatch(parsed.v)
          ELSE IF parsed.exc = "JSONDecodeError"
          THEN Emit(Response(<< <<"JSON parse error:", line.msg>> >>, TRUE))
          ELSE Crash(parsed.exc, "json.loads") :
          parsed \in {JsonLoads(line)} })

IsParsed(line) == line.k # "blank" /\ JsonLoads(line).k = "ok"

IsMessage(line) == IsParsed(line) /\ line.v.t = "dict"

TypeOf(line) == Get(line.v, "type", PyNone)

AtLine == pc = "loop" /\ pos <= Len(stdin)

Run(line) ==
    \E h \in {LoopBody(line)} :
        /\ pos' = pos + 1
        /\ out' = out \o h.emit
        /\ pc' = IF h.exc = "none" THEN pc ELSE "crashed"
        /\ exc' = IF h.exc = "none" THEN exc ELSE [name |-> h.exc, in |-> h.in]
        /\ UNCHANGED stdin

SkipBlank ==
    /\ AtLine
    /\ stdin[pos].k = "blank"
    /\ pos' = pos + 1
    /\ UNCHANGED <<stdin, out, pc, exc>>

ParseFailure ==
    /\ AtLine
    /\ stdin[pos].k # "blank"
    /\ ~IsParsed(stdin[pos])
    /\ Run(stdin[pos])

NotAnObject ==
    /\ AtLine
    /\ IsParsed(stdin[pos])
    /\ ~IsMessage(stdin[pos])
    /\ Run(stdin[pos])

DoDescribe ==
    /\ AtLine
    /\ IsMessage(stdin[pos])
    /\ TypeOf(stdin[pos]) = Describe
    /\ Run(stdin[pos])

DoCall ==
    /\ AtLine
    /\ IsMessage(stdin[pos])
    /\ TypeOf(stdin[pos]) = Call
    /\ Run(stdin[pos])

UnknownType ==
    /\ AtLine
    /\ IsMessage(stdin[pos])
    /\ TypeOf(stdin[pos]) \notin {Describe, Call}
    /\ Run(stdin[pos])

EndOfStream ==
    /\ pc = "loop"
    /\ pos > Len(stdin)
    /\ pc' = "exited"
    /\ UNCHANGED <<stdin, pos, out, exc>>

(***************************************************************************)
(* The inputs.                                                             *)
(***************************************************************************)
Str1(a) == PyStr(<<a>>)

Word3(a, b, c) == PyStr(<<a, b, c>>)

Ints(is) == PyList([i \in 1..Len(is) |-> PyInt(is[i])])

Floats(xs) == PyList([i \in 1..Len(xs) |-> PyFloat(xs[i])])

\* An int literal beyond the largest float, as 1 followed by 400 zeros is.
HugeInt == PyInt(1000)

\* The largest finite float, as 1.7976931348623157e308 is.
MaxFloat == Fin(MaxU)

CallLine(params) == JsonLine(PyDict(("type" :> Call) @@ ("params" :> params)))

CallLineId(id, params) ==
    JsonLine(PyDict(("type" :> Call) @@ ("call_id" :> Str1(id)) @@ ("params" :> params)))

Numbers(ns) == PyDict("numbers" :> ns)

WithPrecision(ns, prec) == PyDict(("numbers" :> ns) @@ ("precision" :> prec))

WithPercentiles(ns, pcts) == PyDict(("numbers" :> ns) @@ ("percentiles" :> pcts))

\* In place of a value: the key is not in the dict.
Absent == [t |-> "absent"]

Params(ns, prec, pcts) ==
    PyDict(("numbers" :> ns) @@
           (IF prec = Absent THEN EmptyMap ELSE "precision" :> prec) @@
           (IF pcts = Absent THEN EmptyMap ELSE "percentiles" :> pcts))

ProtocolLines ==
    { BlankLine, MalformedLine, DeepLine,
      JsonLine(Ints(<<1, 2>>)), JsonLine(PyInt(42)),
      JsonLine(PyDict("type" :> Describe)),
      JsonLine(PyDict(EmptyMap)),
      JsonLine(PyDict("type" :> Word3("f", "o", "o"))),
      JsonLine(PyDict("type" :> PyList(<<Call>>))) }

BadCallLines ==
    { JsonLine(PyDict("type" :> Call)),
      CallLine(PyNone),
      CallLine(Ints(<<1>>)),
      CallLine(PyDict(EmptyMap)),
      CallLine(Numbers(PyList(<<>>))),
      CallLine(Numbers(Word3("1", "2", "3"))),
      CallLine(Numbers(PyList(<<PyInt(1), Word3("a", "b", "c")>>))),
      CallLine(Numbers(PyList(<<PyNone>>))),
      CallLine(Numbers(PyList(<<HugeInt>>))),
      CallLine(Numbers(PyList(<<HugeInt, Str1("a")>>))),
      CallLine(Numbers(Floats(<<MaxFloat, F(0)>>))) }

GoodCallLines ==
    { CallLineId("a", Numbers(Ints(<<1, 2, 3, 4>>))),
      CallLineId("b", Numbers(Ints(<<1, 2, 3, 4>>))),
      CallLine(Numbers(PyList(<<Str1("7"), PyBool(TRUE), PyInt(3)>>))),
      CallLine(WithPercentiles(Ints(<<1, 2, 3, 4>>), Ints(<<50>>))),
      CallLine(WithPercentiles(Ints(<<1, 2, 3, 4>>), PyNone)),
      CallLine(WithPercentiles(Ints(<<1, 2, 3, 4>>), PyList(<<PyInt(50), Str1("x")>>))),
      CallLine(WithPercentiles(Ints(<<1, 2, 3, 4>>), PyList(<<HugeInt>>))),
      CallLine(WithPrecision(Ints(<<1, 2, 3>>), PyInt(999))),
      CallLine(WithPrecision(Ints(<<1, 2, 3>>), PyInt(-5))),
      CallLine(WithPrecision(Ints(<<1, 2, 3>>), Str1("7"))),
      CallLine(WithPrecision(Ints(<<1, 2, 3>>), PyNone)),
      CallLine(WithPrecision(Ints(<<1, 2, 3>>), Word3("a", "b", "c"))) }

Lines == ProtocolLines \cup BadCallLines \cup GoodCallLines

RECURSIVE SeqsUpTo(_, _)
SeqsUpTo(S, n) ==
    IF n = 0 THEN {<<>>}
    ELSE LET shorter == SeqsUpTo(S, n - 1)
         IN  shorter \cup {Append(q, x) : q \in {r \in shorter : Len(r) = n - 1}, x \in S}

Init ==
    /\ stdin \in SeqsUpTo(Lines, MaxLines)
    /\ pos = 1
    /\ out = <<>>
    /\ pc = "loop"
    /\ exc = NoExc

Next ==
    \/ SkipBlank
    \/ ParseFailure
    \/ NotAnObject
    \/ DoDescribe
    \/ DoCall
    \/ UnknownType
    \/ EndOfStream

Spec == Init /\ [][Next]_vars

(***************************************************************************)
(* The statistics engine on its own: one call line, its numbers, precision *)
(* and percentiles drawn from the sets below.                              *)
(***************************************************************************)
NumVals == {Fin(-3 * Unit), F(1), Fin(26), MaxFloat}

PrecVals == {Absent, PyInt(-5), PyInt(0), PyInt(3), PyInt(999)}

PctVals ==
    { Absent,
      Ints(<<50>>), Ints(<<75, 25>>), Ints(<<-1, 100, 0, 104>>),
      PyList(<<PyInt(75), Word3("n", "a", "n"), PyInt(25)>>),
      PyList(<<PyInt(50), Str1("x")>>) }

InitCalls ==
    /\ stdin \in {<<CallLine(Params(Floats(ns), prec, pcts))>> :
                    ns \in SeqsUpTo(NumVals, MaxN) \ {<<>>}, prec \in PrecVals, pcts \in PctVals}
    /\ pos = 1
    /\ out = <<>>
    /\ pc = "loop"
    /\ exc = NoExc

NextCalls == DoCall \/ EndOfStream

SpecCalls == InitCalls /\ [][NextCalls]_vars

(***************************************************************************)
(* What the claims speak of.                                               *)
(***************************************************************************)
\* The lines read so far are stdin[1 .. pos - 1]; the run is over when pc is
\* "exited" (end of stream) or "crashed" (an exception left main).
Read(i) == i \in 1..(pos - 1)

NonBlankUpTo(i) == Cardinality({j \in 1..i : stdin[j].k # "blank"})

\* Line i was answered: as many responses were written as non-blank lines
\* read up to it.  Its response is then the one of the same rank.
Answered(i) == Read(i) /\ stdin[i].k # "blank" /\ NonBlankUpTo(i) <= Len(out)

Answer(i) == out[NonBlankUpTo(i)]

IsResult(resp) ==
    /\ DOMAIN resp = {"content", "error"}
    /\ Len(resp.content) = 1
    /\ resp.content[1].type = "text"

TextOf(resp) == resp.content[1].text

IsCallLine(line) == IsMessage(line) /\ TypeOf(line) = Call

IsDescribeLine(line) == IsMessage(line) /\ TypeOf(line) = Describe

ParamsOf(line) == Get(line.v, "params", PyDict(EmptyMap))

\* The numbers of a call whose params is a dict; PyNone when it has none.
NumbersOf(line) == Get(ParamsOf(line), "numbers", PyNone)

HasBag(line) == IsCallLine(line) /\ ParamsOf(line).t = "dict"

\* An element that is no number: float() refuses it with TypeError or ValueError.
NotNumeric(v) == Caught(ToFloat(v))

\* A valid non-empty numeric sequence: a list whose elements all coerce.
ValidNumbers(ns) ==
    /\ ns.t = "list"
    /\ Len(ns.e) > 0
    /\ \A k \in 1..Len(ns.e) : ToFloat(ns.e[k]).k = "ok"

ReportLabels == <<"n", "min", "max", "mean", "median", "std_dev">>

IsReport(text) ==
    /\ Len(text) >= 6
    /\ \A k \in 1..Len(text) : Len(text[k]) = 3 /\ text[k][2] = "="
    /\ \A k \in 1..6 : text[k][1] = ReportLabels[k]

NumbersError == << <<"Error: 'numbers' must be a non-empty array">> >>

IsDiagnostic(text) ==
    /\ Len(text) = 1
    /\ text[1][1] \in {"Error: 'numbers' must be a non-empty array",
                       "Error: non-numeric value in numbers:"}

(***************************************************************************)
(* C1.  Whatever the lines fed to main, the output holds exactly one       *)
(* response per non-blank line read and none for a blank one, and the k-th *)
(* response answers the k-th non-blank line: the descriptor for a describe *)
(* message, a {content, error} result for any other line.                  *)
(***************************************************************************)
C1_OneResponsePerLine ==
    /\ Len(out) = NonBlankUpTo(pos - 1)
    /\ \A i \in 1..(pos - 1) :
          stdin[i].k # "blank" =>
             /\ Answered(i)
             /\ IF IsDescribeLine(stdin[i]) THEN Answer(i) = DEFINITION
                ELSE IsResult(Answer(i))

(***************************************************************************)
(* C2.  handle_call never raises, whatever params the loop passes it: no   *)
(* exception that leaves main comes out of handle_call, and every call     *)
(* line read is answered with a (text, is_error) result.                   *)
(***************************************************************************)
C2_HandleCallNeverRaises ==
    /\ exc.in # "handle_call"
    /\ \A i \in 1..(pos - 1) :
          IsCallLine(stdin[i]) => Answered(i) /\ IsResult(Answer(i))

(***************************************************************************)
(* C3.  A call whose numbers is missing, not a list or an empty list is    *)
(* answered "Error: 'numbers' must be a non-empty array" with error=true;  *)
(* a call whose numbers is a non-empty list holding an element that is no  *)
(* number is answered a text beginning "Error: non-numeric value in        *)
(* numbers:" with error=true; and the loop goes on.                        *)
(***************************************************************************)
C3_NumbersValidation ==
    \A i \in 1..(pos - 1) :
       HasBag(stdin[i]) =>
          /\ EmptyCheck(NumbersOf(stdin[i])) =>
                /\ Answered(i)
                /\ Answer(i) = Response(NumbersError, TRUE)
          /\ (~EmptyCheck(NumbersOf(stdin[i]))
              /\ \E k \in 1..Len(NumbersOf(stdin[i]).e) : NotNumeric(NumbersOf(stdin[i]).e[k])) =>
                /\ Answered(i)
                /\ IsResult(Answer(i))
                /\ Answer(i).error = TRUE
                /\ TextOf(Answer(i))[1][1] = "Error: non-numeric value in numbers:"
                /\ pc # "crashed"

(***************************************************************************)
(* C4.  Soft-degrade: a call whose numbers is a valid non-empty numeric    *)
(* sequence is answered a report with error=false whatever its precision   *)
(* and percentiles; when percentiles is absent or holds an element that    *)
(* fails coercion, the report has exactly the six lines n, min, max, mean, *)
(* median, std_dev.                                                        *)
(***************************************************************************)
PercentilesDropped(bag) ==
    \/ "percentiles" \notin DOMAIN bag.m
    \/ /\ bag.m["percentiles"].t = "list"
       /\ \E k \in 1..Len(bag.m["percentiles"].e) :
             ToFloat(bag.m["percentiles"].e[k]).k = "raise"

C4_SoftDegrade ==
    \A i \in 1..(pos - 1) :
       (HasBag(stdin[i]) /\ ValidNumbers(NumbersOf(stdin[i]))) =>
          /\ Answered(i)
          /\ IsResult(Answer(i))
          /\ Answer(i).error = FALSE
          /\ IsReport(TextOf(Answer(i)))
          /\ PercentilesDropped(ParamsOf(stdin[i])) => Len(TextOf(Answer(i))) = 6

(***************************************************************************)
(* C5.  Statelessness: once the run is over, every call line of the input  *)
(* has the response that line gets when it is sent alone, whatever lines   *)
(* came before it; two call lines with the same params (whatever their     *)
(* call_id) have the same response; every describe line has the            *)
(* descriptor.                                                             *)
(***************************************************************************)
\* What main writes for a line: nothing when it is blank or never read.
Written(i) == IF Answered(i) THEN <<Answer(i)>> ELSE <<>>

C5_Stateless ==
    pc # "loop" =>
       /\ \A j \in 1..Len(stdin) :
             IsCallLine(stdin[j]) => Written(j) = LoopBody(stdin[j]).emit
       /\ \A i, j \in 1..Len(stdin) :
             (IsCallLine(stdin[i]) /\ IsCallLine(stdin[j])
              /\ ParamsOf(stdin[i]) = ParamsOf(stdin[j])) => Written(i) = Written(j)
       /\ \A j \in 1..Len(stdin) :
             IsDescribeLine(stdin[j]) => Written(j) = <<DEFINITION>>

(***************************************************************************)
(* C6.  Error recovery: a line that is malformed JSON, or a message whose  *)
(* type is neither describe nor call, is answered one {content: [one text  *)
(* block], error: true} result ("Unknown message type: <value>" for the    *)
(* latter) and does not end the loop; the loop ends only at end of stream. *)
(***************************************************************************)
C6_ErrorRecovery ==
    /\ pc # "crashed"
    /\ \A i \in 1..(pos - 1) :
          /\ (stdin[i].k # "blank" /\ ~IsParsed(stdin[i])) =>
                Answered(i) /\ IsResult(Answer(i)) /\ Answer(i).error = TRUE
          /\ (IsMessage(stdin[i]) /\ TypeOf(stdin[i]) \notin {Describe, Call}) =>
                /\ Answered(i)
                /\ IsResult(Answer(i))
                /\ Answer(i).error = TRUE
                /\ TextOf(Answer(i))[1][1] = "Unknown message type:"

(***************************************************************************)
(* C7.  Precision clamping: a call with an integer precision P has the     *)
(* outcome of the same call with precision max(0, min(P, 10)), and a call  *)
(* with no precision the outcome of the same call with precision 4.        *)
(***************************************************************************)
\* The call the run was given, and the same call with another precision.
TheCall == stdin[1]

PrecisionOf(line) == Get(ParamsOf(line), "precision", Absent)

WithPrecisionSet(line, p) ==
    CallLine(PyDict([key \in DOMAIN ParamsOf(line).m \cup {"precision"} |->
                       IF key = "precision" THEN PyInt(p) ELSE ParamsOf(line).m[key]]))

\* What main does with a line: the responses it writes and the exception, if
\* any, that ends it.
Outcome(line) == The({ [emit |-> h.emit, exc |-> h.exc] : h \in {LoopBody(line)} })

Effective(prec) ==
    IF prec = Absent THEN 4
    ELSE IF prec.i < 0 THEN 0
    ELSE IF prec.i > 10 THEN 10
    ELSE prec.i

C7_PrecisionClamped ==
    (pos > 1 /\ HasBag(TheCall) /\ PrecisionOf(TheCall).t \in {"absent", "int"}) =>
       [emit |-> out, exc |-> exc.name]
          = Outcome(WithPrecisionSet(TheCall, Effective(PrecisionOf(TheCall))))

\* A report was written for a call that asked for precision 999: its values
\* carry ten decimals.
C7_Witness ==
    /\ pos > 1
    /\ PrecisionOf(TheCall) = PyInt(999)
    /\ Len(out) = 1
    /\ out[1].error = FALSE
    /\ TextOf(out[1])[2][3] = "1.0000000000"

(***************************************************************************)
(* C8.  Percentiles: for a call with a valid sample and a list of          *)
(* percentiles that all coerce, the report has one p line per requested    *)
(* percentile inside [0, 100] and none for the others, with error=false;   *)
(* the p lines come in ascending order of p; and for any two requested     *)
(* percentiles p1 <= p2 inside [0, 100] the value computed for p1 is at    *)
(* most the value computed for p2.                                         *)
(***************************************************************************)
RequestedOf(line) == FloatAll(Get(ParamsOf(line), "percentiles", PyList(<<>>)).e).v

SampleOf(line) == Sorted(FloatAll(NumbersOf(line).e).v)

HasPercentiles(line) ==
    /\ HasBag(line)
    /\ ValidNumbers(NumbersOf(line))
    /\ "percentiles" \in DOMAIN ParamsOf(line).m
    /\ ParamsOf(line).m["percentiles"].t = "list"
    /\ \A k \in 1..Len(ParamsOf(line).m["percentiles"].e) :
          ToFloat(ParamsOf(line).m["percentiles"].e[k]).k = "ok"

\* The label of the line of percentile p, as the report writes it.
LabelOf(p) == "p" \o ToString(FTrunc(p))

C8_PercentilesMonotone ==
    (pos > 1 /\ HasPercentiles(TheCall) /\ Len(out) = 1 /\ out[1].error = FALSE) =>
       \E req \in {RequestedOf(TheCall)} :
       \E plines \in {SubSeq(TextOf(out[1]), 7, Len(TextOf(out[1])))} :
          /\ Len(plines) = Cardinality({k \in 1..Len(req) : InRange(req[k])})
          /\ \A a, b \in 1..Len(plines) :
                a < b => \E k, l \in 1..Len(req) :
                            /\ plines[a][1] = LabelOf(req[k])
                            /\ plines[b][1] = LabelOf(req[l])
                            /\ FLe(req[k], req[l])
          /\ \A k, l \in 1..Len(req) :
                (InRange(req[k]) /\ InRange(req[l]) /\ FLe(req[k], req[l])) =>
                   FLe(Interpolate(SampleOf(TheCall), req[k]),
                       Interpolate(SampleOf(TheCall), req[l]))

(***************************************************************************)
(* C9.  For every report written for a valid sample, min <= median <= max  *)
(* and min <= mean <= max.                                                 *)
(***************************************************************************)
C9_OrderingOfStatistics ==
    (pos > 1 /\ HasBag(TheCall) /\ ValidNumbers(NumbersOf(TheCall))
     /\ Len(out) = 1 /\ out[1].error = FALSE) =>
       \E s \in {SampleOf(TheCall)} :
       \E mean \in {Mean(FloatAll(NumbersOf(TheCall).e).v)} :
       \E median \in {Median(s)} :
          /\ FLe(s[1], median)
          /\ FLe(median, s[Len(s)])
          /\ FLe(s[1], mean)
          /\ FLe(mean, s[Len(s)])

(***************************************************************************)
(* C10.  All-or-nothing: every response to a call line has one text block  *)
(* that is either a complete report with error=false or a single           *)
(* diagnostic with error=true, and none is the "Error: empty list" text    *)
(* of compute_stats.                                                       *)
(***************************************************************************)
C10_AllOrNothing ==
    \A i \in 1..(pos - 1) :
       (IsCallLine(stdin[i]) /\ Answered(i)) =>
          /\ IsResult(Answer(i))
          /\ TextOf(Answer(i)) # << <<"Error: empty list">> >>
          /\ IF Answer(i).error THEN IsDiagnostic(TextOf(Answer(i)))
             ELSE IsReport(TextOf(Answer(i)))

\* A call with an empty numbers list was refused and a call with a valid
\* sample was answered a report, in one run.
C10_Witness ==
    \E i, j \in 1..(pos - 1) :
       /\ HasBag(stdin[i]) /\ NumbersOf(stdin[i]) = PyList(<<>>)
       /\ Answered(i) /\ Answer(i) = Response(NumbersError, TRUE)
       /\ HasBag(stdin[j]) /\ ValidNumbers(NumbersOf(stdin[j]))
       /\ Answered(j) /\ Answer(j).error = FALSE /\ IsReport(TextOf(Answer(j)))

============================================================================
